---- MODULE Spec2Model ----
(***************************************************************************)
(* Model of the peer/session controller of the chat application            *)
(* (src/src/peer.js) together with the crypto wrapper it drives            *)
(* (src/unnamed/part_001, crypto.js) and the session start of the UI       *)
(* (src/unnamed/part_002, ui.js).                                          *)
(*                                                                         *)
(* One creator and two joiners run the controller.  The transport is the   *)
(* rendezvous service of the specification: a connection has an initiating *)
(* handle ("L", returned by peer.connect) and a receiving handle ("R",     *)
(* handed to the peer.on('connection') listener); each handle has its own  *)
(* open / data / close events and its own inbox of records in flight.      *)
(*                                                                         *)
(* Every `await` of an async function is a scheduling point: the part of a *)
(* handler before its first await runs in the event that starts it, the    *)
(* rest is a continuation kept in `pending` and resumed by a later step.   *)
(***************************************************************************)
EXTENDS Naturals, Sequences, FiniteSets, Bags, TLC

(* ------------------------------ bounds --------------------------------- *)

\* Connections the transport creates in one run.
MaxConns == 4

\* Calls of sendPlain in one run.
MaxSends == 2

\* Close events the transport raises in one run.
MaxCloses == 2

\* Records a remote party that does not run this controller puts on a
\* connection in one run.
MaxInject == 1

\* Calls of ChatStorage.save and ChatStorage.load in one run.
MaxStoreCalls == 3

\* Messages the controller hands to the page in one run.
MaxUiMsgs == 2

(* ----------------------------- identities ------------------------------ *)

\* peer.js:9,31  the creator's peer id is the room id
roomId == "C"

Joiners == {"J1", "J2"}

Peers == {roomId} \cup Joiners

\* peer.js:19
isCreator(p) == p = roomId

\* The objects a user sends (ui.js:227 builds {text, sender, type}).
Payloads == {"hi"}

(* ------------------------- crypto.js primitives ------------------------ *)

\* An AES-GCM key is a set of names: the room key the creator generates is
\* {"K1"}, a key generated outside the room is {"K2"}, the key two ECDH
\* parties derive is the set of their two names.  No key is {}.
NoKey == {}

\* crypto.js:52-58
generateAESKey == {"K1"}

ForeignKey == {"K2"}

\* crypto.js:12-18  the private half of p's pair is p, the public half is p
\* crypto.js:20-23  exported as base64 of the raw key bytes
exportPublicKeyToBase64(pubKey) == <<"b64", pubKey>>

NoB64 == <<>>

\* crypto.js:25-34  importKey rejects bytes that are no P-256 point
importPublicKeyFromBase64(b64) ==
    IF Len(b64) = 2 /\ b64[1] = "b64" /\ b64[2] \in Peers
    THEN [ok |-> TRUE, key |-> b64[2]]
    ELSE [ok |-> FALSE, key |-> "none"]

\* crypto.js:36-50  ECDH: both sides derive the same AES key
deriveSharedAESKey(privateKey, remotePublicKey) == {privateKey, remotePublicKey}

\* A plaintext is the text the code encrypts: the base64 of a raw AES key
\* (exportAESKeyToBase64) or the JSON text of a chat object (JSON.stringify).
NoPt == [kind |-> "none", k |-> NoKey, text |-> "none"]

\* crypto.js:60-63
exportAESKeyToBase64(key) == [kind |-> "key", k |-> key, text |-> "none"]

\* crypto.js:65-68  importKey rejects anything that is not raw key bytes
importAESKeyFromBase64(pt) ==
    IF pt.kind = "key" /\ pt.k # NoKey
    THEN [ok |-> TRUE, key |-> pt.k]
    ELSE [ok |-> FALSE, key |-> NoKey]

\* peer.js:262  JSON.stringify(obj)
JSONstringify(obj) == [kind |-> "chat", k |-> NoKey, text |-> obj]

\* peer.js:248  JSON.parse(plaintext) throws on text that is no JSON
JSONparse(pt) ==
    IF pt.kind = "chat"
    THEN [ok |-> TRUE, obj |-> pt.text]
    ELSE [ok |-> FALSE, obj |-> "none"]

\* crypto.js:70-74  {iv, ciphertext}: the fresh nonce is part of the term
NoEnc == [key |-> NoKey, pt |-> NoPt]

encryptAESGCM(key, plaintext) == [key |-> key, pt |-> plaintext]

\* crypto.js:76-81  AES-GCM authenticates: any other key throws
decryptAESGCM(key, enc) ==
    IF key # NoKey /\ enc.key = key
    THEN [ok |-> TRUE, pt |-> enc.pt]
    ELSE [ok |-> FALSE, pt |-> NoPt]

(* ------------------------------ records -------------------------------- *)

\* The wire record {type, from, payload}; the payload of each type has its
\* own field: pk (publicKey: payload, announce: payload.pubKey), list
\* (peerList: payload), who (newPeer: payload.peerId), enc (roomKey, msg:
\* payload {iv, ciphertext}).
Msg(type, from, pk, list, who, enc) ==
    [type |-> type, from |-> from, pk |-> pk, list |-> list, who |-> who, enc |-> enc]

\* peer.js:96, 117
PublicKeyMsg(p) == Msg("publicKey", p, exportPublicKeyToBase64(p), <<>>, "none", NoEnc)

\* peer.js:234, 278, 283
AnnounceMsg(p) == Msg("announce", p, exportPublicKeyToBase64(p), <<>>, "none", NoEnc)

\* peer.js:180
RoomKeyMsg(p, enc) == Msg("roomKey", p, NoB64, <<>>, "none", enc)

\* peer.js:182
PeerListMsg(p, list) == Msg("peerList", p, NoB64, list, "none", NoEnc)

\* peer.js:189
NewPeerMsg(p, q) == Msg("newPeer", p, NoB64, <<>>, q, NoEnc)

\* peer.js:264
ChatMsg(p, enc) == Msg("msg", p, NoB64, <<>>, "none", enc)

NoMsg == Msg("none", "none", NoB64, <<>>, "none", NoEnc)

(* ------------------------------- state --------------------------------- *)

VARIABLES
    peerOpen,      \* peer.js:51   the peer's registration has succeeded
    roomKey,       \* peer.js:11   per peer, NoKey while null
    connMap,       \* peer.js:7    per peer, the entries in insertion order
    conns,         \* the transport's connections, in creation order
    pending,       \* per peer, the bag of suspended async continuations
    announced,     \* ui.js:208    the joiner's announce timer has fired
    delivered,     \* per peer, the calls of onMessageCallback, in order
    participants,  \* per peer, the last list given to onParticipantChange
    sendResult,    \* per peer, how the last sendPlain call ended
    wire,          \* bag of every record handed to conn.send on an open handle
    sends,         \* sendPlain calls so far
    closes,        \* close events so far
    injected,      \* records put on a connection by a foreign party so far
    localStorage,  \* storage.js:9  per room id, the item chat:<roomId>
    storeTasks,    \* bag of suspended save and load calls of ChatStorage
    loadResult,    \* how the last load call that returned ended
    storeCalls,    \* save and load calls so far
    messagesBuffer, \* ui.js:34  the message log on screen
    localKey,      \* ui.js:33  NoKey while null
    uiPhase,       \* where start() of ui.js is: "idle", "loading" or "ready"
    uiMsgs         \* messages handed to onPeerMessage so far

vars == <<peerOpen, roomKey, connMap, conns, pending, announced, delivered,
          participants, sendResult, wire, sends, closes, injected,
          localStorage, storeTasks, loadResult, storeCalls,
          messagesBuffer, localKey, uiPhase, uiMsgs>>

\* The state of the page script ui.js.
uiVars == <<messagesBuffer, localKey, uiPhase, uiMsgs>>

\* The state of ChatStorage.
storeVars == <<localStorage, storeTasks, loadResult, storeCalls>>

\* The state of ChatPeer and its transport.
peerVars == <<peerOpen, roomKey, connMap, conns, pending, announced, delivered,
              participants, sendResult, wire, sends, closes, injected>>

Other(side) == IF side = "L" THEN "R" ELSE "L"

\* The peer that holds handle `side` of connection c.
Owner(c, side) == IF side = "L" THEN c.from ELSE c.to

\* conn.peer of handle `side` of connection c.
RemotePeer(c, side) == IF side = "L" THEN c.to ELSE c.from

\* A suspended continuation of an async function.
Task(k, id, side, m, x, key) ==
    [k |-> k, id |-> id, side |-> side, m |-> m, x |-> x, key |-> key]

\* The part of the state a handler's synchronous code reads and writes.
World == [conns |-> conns, connMap |-> connMap, wire |-> wire, participants |-> participants]

(* --------------------------- connection registry ----------------------- *)

\* Map.keys()
Keys(map) == [i \in 1..Len(map) |-> map[i].pid]

\* A registry that reports every identity as absent.
HasNothing(map, pid) == FALSE

\* Map.has(pid)
Has(map, pid) == \E i \in 1..Len(map) : map[i].pid = pid

\* Map.get(pid), for a pid the map has
Get(map, pid) == map[CHOOSE i \in 1..Len(map) : map[i].pid = pid]

\* Map.set(pid, handle): a present key keeps its place
MapSet(map, pid, id, side) ==
    LET e == [pid |-> pid, id |-> id, side |-> side] IN
    IF Has(map, pid)
    THEN [i \in 1..Len(map) |-> IF map[i].pid = pid THEN e ELSE map[i]]
    ELSE Append(map, e)

\* Map.delete(pid)
MapDelete(map, pid) == SelectSeq(map, LAMBDA e : e.pid # pid)

\* peer.js:143-146
notifyParticipants(W, p) ==
    [W EXCEPT !.participants[p] = Keys(W.connMap[p]) \o <<p>>]

(* ------------------------------ transport ------------------------------ *)

\* One handle of a connection: st is "queued" (the owner is not registered
\* yet, the offer waits in its socket), "pending" (negotiating), "open",
\* "closed" or "failed" (the remote id was not registered); handled says
\* whether the data, open and close listeners of peer.js are attached (the
\* events of a handle without listeners run no code of the controller, so
\* the model raises none and such a handle stays as it was created); pub is
\* conn._theirPub; hooks are the open listeners added after the first one,
\* in order; q holds the records in flight to this handle.
End(st, handled) ==
    [st |-> st, handled |-> handled, pub |-> "none", hooks |-> <<>>, q |-> <<>>]

\* An open listener added by announceToCreator (peer.js:282-284) or by the
\* announce handler (peer.js:179-183, which closes over enc).
Hook(h, enc) == [h |-> h, enc |-> enc]

\* peer.js:67-73  only the creator attaches listeners to an incoming handle
onConnection(p) == isCreator(p)

\* conn.send(JSON.stringify(m)) on handle (id, side): a handle that is not
\* open sends nothing; the record is lost when the far handle is gone or has
\* no data listener (peer.js:70: a joiner attaches none to an incoming handle).
Send(W, id, side, m) ==
    LET c == W.conns[id]
        o == Other(side)
    IN  IF c[side].st # "open" THEN W
        ELSE [W EXCEPT
                !.wire = @ (+) SetToBag({[id |-> id, side |-> side, m |-> m]}),
                !.conns[id][o].q =
                    IF c[o].st \in {"closed", "failed"} \/ ~c[o].handled
                    THEN @ ELSE Append(@, m)]

\* peer.connect(theirId): the offer leaves once the caller is registered and
\* fails when theirId is not registered at that moment.
OfferState(reg, p, theirId) ==
    IF ~reg[p] THEN "queued" ELSE IF reg[theirId] THEN "pending" ELSE "failed"

\* peer.js:88-110
connectToPeer(W, reg, p, theirId) ==
    IF Has(W.connMap[p], theirId) THEN W
    ELSE LET st == OfferState(reg, p, theirId)
             c  == [from |-> p, to |-> theirId,
                    L |-> End(st, TRUE),
                    R |-> End(st, onConnection(theirId))]
             id == Len(W.conns) + 1
             W1 == [W EXCEPT !.conns = Append(@, c),
                             !.connMap[p] = MapSet(@, theirId, id, "L")]
         IN  notifyParticipants(W1, p)

\* The connections connectToPeer(p, theirId) would create: 0 or 1.
NeedsConn(W, p, theirId) == IF Has(W.connMap[p], theirId) THEN 0 ELSE 1

\* The first open listener registering an incoming handle without the
\* notification of peer.js:119.
FirstOpenListenerSilent(W, p, id, side) ==
    LET c  == W.conns[id]
        W1 == Send(W, id, side, PublicKeyMsg(p))
    IN  IF side = "L" THEN W1
        ELSE [W1 EXCEPT !.connMap[p] = MapSet(@, RemotePeer(c, side), id, side)]

\* peer.js:93-97 (outgoing) and peer.js:114-120 (incoming): the first open
\* listener of a handle.
FirstOpenListener(W, p, id, side) ==
    LET c  == W.conns[id]
        W1 == Send(W, id, side, PublicKeyMsg(p))
    IN  IF side = "L" THEN W1
        ELSE notifyParticipants(
                [W1 EXCEPT !.connMap[p] = MapSet(@, RemotePeer(c, side), id, side)], p)

\* peer.js:179-183 and peer.js:282-284: one later open listener.
RunHook(W, p, id, side, hook) ==
    IF hook.h = "announce"
    THEN Send(W, id, side, AnnounceMsg(p))
    ELSE LET W1 == Send(W, id, side, RoomKeyMsg(p, hook.enc))
         IN  Send(W1, id, side, PeerListMsg(p, Keys(W1.connMap[p]) \o <<p>>))

RECURSIVE RunHooks(_, _, _, _, _)
RunHooks(W, p, id, side, hooks) ==
    IF hooks = <<>> THEN W
    ELSE RunHooks(RunHook(W, p, id, side, Head(hooks)), p, id, side, Tail(hooks))

\* conn.on('open', f) on handle (id, side): 'open' is emitted once, so a
\* listener added to a handle that has opened, closed or failed never runs.
AddOpenListener(W, id, side, hook) ==
    IF W.conns[id][side].st \in {"queued", "pending"}
    THEN [W EXCEPT !.conns[id][side].hooks = Append(@, hook)]
    ELSE W

(* ------------------------------- storage ------------------------------- *)

\* The room ids a browser has history for: this room and another one.
Rooms == {roomId, "D"}

\* ui.js:33  the user's local keys
LocalKeys == {{"LK1"}, {"LK2"}}

\* The message logs handed to save.
Logs == {<<>>, <<"hi">>, <<"hi", "hi">>}

\* storage.js:14-15  localStorage.getItem returns null: nothing is stored
NoBlob == [key |-> NoKey, pt |-> [kind |-> "none", k |-> NoKey, text |-> <<>>]]

\* The outcomes of load: none yet, the log it returned, or the error it threw.
NoResult == [status |-> "none", log |-> <<>>]

Returned(log) == [status |-> "ok", log |-> log]

DecryptionFailed == [status |-> "DecryptionFailed", log |-> <<>>]

\* A suspended call of save or load: raw is the item load read.
StoreTask(op, room, log, key, raw) ==
    [op |-> op, room |-> room, log |-> log, key |-> key, raw |-> raw]

\* storage.js:6-8  save up to its await
save(room, messages, userKey) ==
    /\ storeCalls < MaxStoreCalls
    /\ storeCalls' = storeCalls + 1
    /\ storeTasks' = storeTasks (+) SetToBag({StoreTask("save", room, messages, userKey, NoBlob)})
    /\ UNCHANGED <<localStorage, loadResult>>
    /\ UNCHANGED <<peerVars, uiVars>>

\* storage.js:8-9  the encryption has resolved: setItem
ResumeSave(t) ==
    /\ t.op = "save"
    /\ BagIn(t, storeTasks)
    /\ localStorage' = [localStorage EXCEPT ![t.room] =
                           encryptAESGCM(t.key, JSONstringify(t.log))]
    /\ storeTasks' = storeTasks (-) SetToBag({t})
    /\ UNCHANGED <<loadResult, storeCalls>>
    /\ UNCHANGED <<peerVars, uiVars>>

\* storage.js:13-18  load up to its await: nothing stored returns []
load(room, userKey) ==
    /\ storeCalls < MaxStoreCalls
    /\ storeCalls' = storeCalls + 1
    /\ IF localStorage[room] = NoBlob
       THEN /\ loadResult' = Returned(<<>>)
            /\ UNCHANGED storeTasks
       ELSE /\ storeTasks' = storeTasks (+)
                   SetToBag({StoreTask("load", room, <<>>, userKey, localStorage[room])})
            /\ UNCHANGED loadResult
    /\ UNCHANGED localStorage
    /\ UNCHANGED <<peerVars, uiVars>>

\* The load of the comment at storage.js:12: [] on a bad key.
ResumeLoadEmpty(t) ==
    /\ t.op = "load"
    /\ BagIn(t, storeTasks)
    /\ LET dec == decryptAESGCM(t.key, t.raw)
           obj == JSONparse(dec.pt)
       IN  loadResult' = IF dec.ok /\ obj.ok THEN Returned(obj.obj) ELSE Returned(<<>>)
    /\ storeTasks' = storeTasks (-) SetToBag({t})
    /\ UNCHANGED <<localStorage, storeCalls>>
    /\ UNCHANGED <<peerVars, uiVars>>

\* storage.js:18-23  the decryption has resolved or rejected
ResumeLoad(t) ==
    /\ t.op = "load"
    /\ BagIn(t, storeTasks)
    /\ LET dec == decryptAESGCM(t.key, t.raw)
           obj == JSONparse(dec.pt)
       IN  loadResult' = IF dec.ok /\ obj.ok THEN Returned(obj.obj) ELSE DecryptionFailed
    /\ storeTasks' = storeTasks (-) SetToBag({t})
    /\ UNCHANGED <<localStorage, storeCalls>>
    /\ UNCHANGED <<peerVars, uiVars>>

(* ------------------------------- history ------------------------------- *)

\* ui.js:166-218  start(): the local key is read from the input, the page
\* joins room roomId and calls loadHistory (ui.js:140-143), whose call of
\* ChatStorage.load reads the stored item before its await
start(K) ==
    /\ uiPhase = "idle"
    /\ storeTasks = EmptyBag
    /\ localKey' = K
    /\ uiPhase' = "loading"
    /\ storeTasks' = storeTasks (+)
           SetToBag({StoreTask("loadHistory", roomId, <<>>, K, localStorage[roomId])})
    /\ UNCHANGED <<localStorage, loadResult, storeCalls, messagesBuffer, uiMsgs>>
    /\ UNCHANGED peerVars

\* ui.js:143-150  what loadHistory returns for the item raw: the stored log,
\* [] when nothing is stored and [] when load throws
loadHistory(raw, K) ==
    LET dec == decryptAESGCM(K, raw)
        obj == JSONparse(dec.pt)
    IN  IF raw # NoBlob /\ dec.ok /\ obj.ok THEN obj.obj ELSE <<>>

\* ui.js:218  messagesBuffer = await loadHistory()
ResumeLoadHistory(t) ==
    /\ t.op = "loadHistory"
    /\ BagIn(t, storeTasks)
    /\ messagesBuffer' = loadHistory(t.raw, t.key)
    /\ uiPhase' = "ready"
    /\ storeTasks' = storeTasks (-) SetToBag({t})
    /\ UNCHANGED <<localStorage, loadResult, storeCalls, localKey, uiMsgs>>
    /\ UNCHANGED peerVars

\* ui.js:153-157 and 127-133  onPeerMessage pushes the message and
\* persistMessages calls ChatStorage.save with the buffer as it is then; the
\* controller hands messages over once init has returned (ui.js:196-203)
onPeerMessage(msg) ==
    /\ uiPhase # "idle"
    /\ uiMsgs < MaxUiMsgs
    /\ uiMsgs' = uiMsgs + 1
    /\ messagesBuffer' = Append(messagesBuffer, msg)
    /\ storeTasks' = storeTasks (+)
           SetToBag({StoreTask("save", roomId, Append(messagesBuffer, msg), localKey, NoBlob)})
    /\ UNCHANGED <<localStorage, loadResult, storeCalls, localKey, uiPhase>>
    /\ UNCHANGED peerVars

(* -------------------------------- init --------------------------------- *)

\* The state after ChatPeer.init has returned in every browser (peer.js:16-85)
\* and ui.js:208 has armed each joiner's announce timer.
Init ==
    /\ peerOpen = [p \in Peers |-> FALSE]
    /\ roomKey = [p \in Peers |-> NoKey]
    /\ connMap = [p \in Peers |-> <<>>]
    /\ conns = <<>>
    /\ pending = [p \in Peers |-> EmptyBag]
    /\ announced = [p \in Joiners |-> FALSE]
    /\ delivered = [p \in Peers |-> <<>>]
    /\ participants = [p \in Peers |-> <<>>]
    /\ sendResult = [p \in Peers |-> "none"]
    /\ wire = EmptyBag
    /\ sends = 0
    /\ closes = 0
    /\ injected = 0
    /\ localStorage = [r \in Rooms |-> NoBlob]
    /\ storeTasks = EmptyBag
    /\ loadResult = NoResult
    /\ storeCalls = 0
    /\ messagesBuffer = <<>>
    /\ localKey = NoKey
    /\ uiPhase = "idle"
    /\ uiMsgs = 0

Commit(W) ==
    /\ conns' = W.conns
    /\ connMap' = W.connMap
    /\ wire' = W.wire
    /\ participants' = W.participants

Suspend(p, t) == pending' = [pending EXCEPT ![p] = @ (+) SetToBag({t})]

Finish(p, t) == pending' = [pending EXCEPT ![p] = @ (-) SetToBag({t})]

Continue(p, t, u) ==
    pending' = [pending EXCEPT ![p] = (@ (-) SetToBag({t})) (+) SetToBag({u})]

(* ------------------------------ peer events ---------------------------- *)

\* The offers p made before it was registered leave its socket.
FlushOffers(W, reg, p) ==
    LET cs == W.conns
        Flushed(c) == [c EXCEPT !.L.st = OfferState(reg, p, c.to),
                                !.R.st = OfferState(reg, p, c.to)]
    IN  [W EXCEPT !.conns =
            [i \in 1..Len(cs) |->
                IF cs[i].from = p /\ cs[i].L.st = "queued"
                THEN Flushed(cs[i])
                ELSE cs[i]]]

\* peer.js:51-65  peer.on('open')
PeerOpen(p) ==
    /\ ~peerOpen[p]
    /\ LET reg == [peerOpen EXCEPT ![p] = TRUE]
           W0  == FlushOffers(World, reg, p)
       IN  /\ peerOpen' = reg
           /\ IF isCreator(p)
              THEN /\ Commit(W0)
                   /\ Suspend(p, Task("genKey", 0, "L", NoMsg, "none", NoKey))
              ELSE /\ Len(conns) + NeedsConn(W0, p, roomId) <= MaxConns
                   /\ Commit(connectToPeer(W0, reg, p, roomId))
                   /\ UNCHANGED pending
    /\ UNCHANGED <<roomKey, announced, delivered, sendResult, sends, closes, injected>>
    /\ UNCHANGED <<storeVars, uiVars>>

\* ui.js:206-209 and peer.js:274-286  the joiner's timer calls announceToCreator
announceToCreator(p) ==
    /\ p \in Joiners
    /\ ~announced[p]
    /\ announced' = [announced EXCEPT ![p] = TRUE]
    /\ LET map == connMap[p]
           e   == Get(map, roomId)
       IN  IF Has(map, roomId) /\ conns[e.id][e.side].st = "open"
           THEN Commit(Send(World, e.id, e.side, AnnounceMsg(p)))
           ELSE /\ Len(conns) + NeedsConn(World, p, roomId) <= MaxConns
                /\ LET W1 == connectToPeer(World, peerOpen, p, roomId)
                       c  == Get(W1.connMap[p], roomId)
                   IN  Commit(AddOpenListener(W1, c.id, c.side, Hook("announce", NoEnc)))
    /\ UNCHANGED <<peerOpen, roomKey, pending, delivered, sendResult, sends, closes, injected>>
    /\ UNCHANGED <<storeVars, uiVars>>

\* The transport opens handle (id, side): peer.js:93-97 or 114-120 runs,
\* then the open listeners added later, in the order they were added.
OpenEvent(id, side) ==
    /\ conns[id][side].st = "pending"
    /\ conns[id][side].handled
    /\ LET c  == conns[id]
           p  == Owner(c, side)
           W0 == [World EXCEPT !.conns[id][side].st = "open",
                               !.conns[id][side].hooks = <<>>]
           W1 == FirstOpenListener(W0, p, id, side)
       IN  Commit(RunHooks(W1, p, id, side, c[side].hooks))
    /\ UNCHANGED <<peerOpen, roomKey, pending, announced, delivered, sendResult,
                   sends, closes, injected>>
    /\ UNCHANGED <<storeVars, uiVars>>

\* peer.js:102-106 and 125-129  conn.on('close')
CloseEvent(id, side) ==
    /\ conns[id][side].st = "open"
    /\ conns[id][side].handled
    /\ closes < MaxCloses
    /\ closes' = closes + 1
    /\ LET c  == conns[id]
           p  == Owner(c, side)
           W0 == [World EXCEPT !.conns[id][side].st = "closed",
                               !.conns[id][side].q = <<>>]
       IN  Commit(notifyParticipants(
                [W0 EXCEPT !.connMap[p] = MapDelete(@, RemotePeer(c, side))], p))
    /\ UNCHANGED <<peerOpen, roomKey, pending, announced, delivered, sendResult,
                   sends, injected>>
    /\ UNCHANGED <<storeVars, uiVars>>

(* ------------------------- handleProtocolMessage ----------------------- *)

\* peer.js:132-141  a record the transport hands over parses to itself; raw
\* text that is no JSON parses to null
parseSafe(raw) == IF raw.type = "unparseable" THEN NoMsg ELSE raw

\* peer.js:213-217  the loop of the peerList case
RECURSIVE ConnectAll(_, _, _, _)
ConnectAll(W, reg, p, list) ==
    IF list = <<>> THEN W
    ELSE LET pid == Head(list)
         IN  IF pid = p \/ Has(W.connMap[p], pid)
             THEN ConnectAll(W, reg, p, Tail(list))
             ELSE ConnectAll(connectToPeer(W, reg, p, pid), reg, p, Tail(list))

\* The loop over the registry without the test of peer.js:187.
RECURSIVE SendAllNoSkip(_, _, _, _)
SendAllNoSkip(W, entries, m, skip) ==
    IF entries = <<>> THEN W
    ELSE LET e == Head(entries)
         IN  SendAllNoSkip(Send(W, e.id, e.side, m), Tail(entries), m, skip)

\* peer.js:186-191 and 266-268  send m on every open handle of the entries,
\* leaving out the entry of `skip`
RECURSIVE SendAll(_, _, _, _)
SendAll(W, entries, m, skip) ==
    IF entries = <<>> THEN W
    ELSE LET e == Head(entries)
         IN  IF e.pid = skip
             THEN SendAll(W, Tail(entries), m, skip)
             ELSE SendAll(Send(W, e.id, e.side, m), Tail(entries), m, skip)

\* The cases of handleProtocolMessage(conn, msg) (peer.js:149-257) up to
\* their first await, for the record m read from handle (id, side) of peer p;
\* W0 is the world with m taken from the inbox.

\* peer.js:151-153
HandlePublicKey(p, id, side, m, W0) ==
    /\ Commit(W0)
    /\ Suspend(p, Task("publicKey", id, side, m, "none", NoKey))

\* peer.js:158-163
HandleAnnounce(p, id, side, m, W0) ==
    /\ Commit(W0)
    /\ IF isCreator(p)
       THEN Suspend(p, Task("announce", id, side, m, "none", NoKey))
       ELSE UNCHANGED pending

\* peer.js:196-201  conn._theirPub is read before the first await
HandleRoomKey(p, id, side, m, W0) ==
    /\ Commit(W0)
    /\ Suspend(p, Task("roomKey", id, side, m, W0.conns[id][side].pub, NoKey))

\* peer.js:211-219
HandlePeerList(p, id, side, m, W0) ==
    LET W1 == ConnectAll(W0, peerOpen, p, m.list)
    IN  /\ Len(W1.conns) <= MaxConns
        /\ Commit(W1)
        /\ UNCHANGED pending

\* peer.js:221-228
HandleNewPeer(p, id, side, m, W0) ==
    LET W1 == IF ~Has(W0.connMap[p], m.who) /\ m.who # p
              THEN connectToPeer(W0, peerOpen, p, m.who)
              ELSE W0
    IN  /\ Len(W1.conns) <= MaxConns
        /\ Commit(W1)
        /\ UNCHANGED pending

\* peer.js:230-237
HandleAnnounceRequest(p, id, side, m, W0) ==
    /\ IF ~isCreator(p)
       THEN Commit(Send(W0, id, side, AnnounceMsg(p)))
       ELSE Commit(W0)
    /\ UNCHANGED pending

\* The msg case without its room key test at peer.js:240-243.
HandleMsgUnguarded(p, id, side, m, W0) ==
    /\ Commit(W0)
    /\ Suspend(p, Task("msg", id, side, m, "none", roomKey[p]))

\* peer.js:239-247  the room key is read before the await
HandleMsg(p, id, side, m, W0) ==
    /\ Commit(W0)
    /\ IF roomKey[p] = NoKey
       THEN UNCHANGED pending
       ELSE Suspend(p, Task("msg", id, side, m, "none", roomKey[p]))

\* peer.js:149-150, 256  the switch on msg.type; no case matches another type
handleProtocolMessage(p, id, side, m, W0) ==
    CASE m.type = "publicKey" -> HandlePublicKey(p, id, side, m, W0)
      [] m.type = "announce" -> HandleAnnounce(p, id, side, m, W0)
      [] m.type = "roomKey" -> HandleRoomKey(p, id, side, m, W0)
      [] m.type = "peerList" -> HandlePeerList(p, id, side, m, W0)
      [] m.type = "newPeer" -> HandleNewPeer(p, id, side, m, W0)
      [] m.type = "announceRequest" -> HandleAnnounceRequest(p, id, side, m, W0)
      [] m.type = "msg" -> HandleMsg(p, id, side, m, W0)
      [] OTHER -> Commit(W0) /\ UNCHANGED pending

\* peer.js:98-101 and 121-124  conn.on('data'): the transport hands the next
\* record in flight to an open handle.
DataEvent(id, side) ==
    /\ conns[id][side].st = "open"
    /\ conns[id][side].handled
    /\ conns[id][side].q # <<>>
    /\ LET c  == conns[id]
           p  == Owner(c, side)
           m  == parseSafe(Head(c[side].q))
           W0 == [World EXCEPT !.conns[id][side].q = Tail(@)]
       IN  IF m # NoMsg
           THEN handleProtocolMessage(p, id, side, m, W0)
           ELSE Commit(W0) /\ UNCHANGED pending
    /\ UNCHANGED <<peerOpen, roomKey, announced, delivered, sendResult, sends,
                   closes, injected>>
    /\ UNCHANGED <<storeVars, uiVars>>

(* ---------------------------- continuations ---------------------------- *)

\* peer.js:56-59  the creator's generateAESKey resolves
ResumeGenKey(p, t) ==
    /\ t.k = "genKey"
    /\ roomKey' = [roomKey EXCEPT ![p] = generateAESKey]
    /\ Finish(p, t)
    /\ UNCHANGED <<conns, connMap, wire, participants, delivered, sendResult>>

\* The publicKey case storing the outcome of the import whether or not it
\* succeeded.
ResumePublicKeyUnchecked(p, t) ==
    /\ t.k = "publicKey"
    /\ conns' = [conns EXCEPT ![t.id][t.side].pub = importPublicKeyFromBase64(t.m.pk).key]
    /\ Finish(p, t)
    /\ UNCHANGED <<roomKey, connMap, wire, participants, delivered, sendResult>>

\* peer.js:153-154  importPublicKeyFromBase64 resolves (or rejects, which
\* ends the handler)
ResumePublicKey(p, t) ==
    /\ t.k = "publicKey"
    /\ LET imp == importPublicKeyFromBase64(t.m.pk)
       IN  IF imp.ok
           THEN conns' = [conns EXCEPT ![t.id][t.side].pub = imp.key]
           ELSE UNCHANGED conns
    /\ Finish(p, t)
    /\ UNCHANGED <<roomKey, connMap, wire, participants, delivered, sendResult>>

\* peer.js:163-171  the announce case after its import has resolved: find or
\* make the connection to the announcer
ResumeAnnounce(p, t) ==
    /\ t.k = "announce"
    /\ LET imp     == importPublicKeyFromBase64(t.m.pk)
           theirId == t.m.from
           known   == Has(connMap[p], theirId)
           W1      == IF known THEN World
                      ELSE connectToPeer(World, peerOpen, p, theirId)
           e       == Get(W1.connMap[p], theirId)
           W2      == IF known THEN W1
                      ELSE [W1 EXCEPT !.conns[e.id][e.side].pub = imp.key]
       IN  IF imp.ok
           THEN /\ Len(W2.conns) <= MaxConns
                /\ Commit(W2)
                /\ Continue(p, t, Task("announceB", e.id, e.side, t.m, imp.key, NoKey))
           ELSE /\ UNCHANGED <<conns, connMap, wire, participants>>
                /\ Finish(p, t)
    /\ UNCHANGED <<roomKey, delivered, sendResult>>

\* peer.js:174-175  deriveSharedAESKey has resolved; exportAESKeyToBase64 is
\* called with the room key as it is now and throws on null
ResumeAnnounceB(p, t) ==
    /\ t.k = "announceB"
    /\ IF roomKey[p] = NoKey
       THEN Finish(p, t)
       ELSE Continue(p, t, [t EXCEPT !.k = "announceC", !.key = roomKey[p]])
    /\ UNCHANGED <<roomKey, conns, connMap, wire, participants, delivered, sendResult>>

\* The announce case sending roomRaw itself instead of enc.
ResumeAnnounceRaw(p, t) ==
    /\ t.k = "announceC"
    /\ LET raw == [key |-> NoKey, pt |-> exportAESKeyToBase64(t.key)]
           W1  == AddOpenListener(World, t.id, t.side, Hook("roomKey", raw))
       IN  Commit(SendAll(W1, W1.connMap[p], NewPeerMsg(p, t.m.from), t.m.from))
    /\ Finish(p, t)
    /\ UNCHANGED <<roomKey, delivered, sendResult>>

\* peer.js:176-191  the export and the encryption have resolved: add the open
\* listener that sends the room key, tell the others about the newcomer
ResumeAnnounceC(p, t) ==
    /\ t.k = "announceC"
    /\ LET derived == deriveSharedAESKey(p, t.x)
           enc     == encryptAESGCM(derived, exportAESKeyToBase64(t.key))
           W1      == AddOpenListener(World, t.id, t.side, Hook("roomKey", enc))
       IN  Commit(SendAll(W1, W1.connMap[p], NewPeerMsg(p, t.m.from), t.m.from))
    /\ Finish(p, t)
    /\ UNCHANGED <<roomKey, delivered, sendResult>>

\* The roomKey case importing the payload without an authenticated decryption.
ResumeRoomKeyUnauth(p, t) ==
    /\ t.k = "roomKey"
    /\ LET imp == importAESKeyFromBase64(t.m.enc.pt)
       IN  IF imp.ok
           THEN roomKey' = [roomKey EXCEPT ![p] = imp.key]
           ELSE UNCHANGED roomKey
    /\ Finish(p, t)
    /\ UNCHANGED <<conns, connMap, wire, participants, delivered, sendResult>>

\* peer.js:199-207  the roomKey case: t.x is conn._theirPub as read before the
\* first await; every throw is caught
ResumeRoomKey(p, t) ==
    /\ t.k = "roomKey"
    /\ LET shared == deriveSharedAESKey(p, t.x)
           dec    == decryptAESGCM(shared, t.m.enc)
           imp    == importAESKeyFromBase64(dec.pt)
       IN  IF t.x # "none" /\ dec.ok /\ imp.ok
           THEN roomKey' = [roomKey EXCEPT ![p] = imp.key]
           ELSE UNCHANGED roomKey
    /\ Finish(p, t)
    /\ UNCHANGED <<conns, connMap, wire, participants, delivered, sendResult>>

\* The msg case passing the envelope on to every connection of the registry.
ResumeMsgRelay(p, t) ==
    /\ t.k = "msg"
    /\ LET dec == decryptAESGCM(t.key, t.m.enc)
           obj == JSONparse(dec.pt)
       IN  IF dec.ok /\ obj.ok
           THEN delivered' = [delivered EXCEPT ![p] =
                                Append(@, [from |-> t.m.from, payload |-> obj.obj])]
           ELSE UNCHANGED delivered
    /\ Commit(SendAll(World, connMap[p], t.m, "none"))
    /\ Finish(p, t)
    /\ UNCHANGED <<roomKey, sendResult>>

\* peer.js:246-253  the msg case: t.key is the room key as read before the
\* await; every throw is caught
ResumeMsg(p, t) ==
    /\ t.k = "msg"
    /\ LET dec == decryptAESGCM(t.key, t.m.enc)
           obj == JSONparse(dec.pt)
       IN  IF dec.ok /\ obj.ok
           THEN delivered' = [delivered EXCEPT ![p] =
                                Append(@, [from |-> t.m.from, payload |-> obj.obj])]
           ELSE UNCHANGED delivered
    /\ Finish(p, t)
    /\ UNCHANGED <<roomKey, conns, connMap, wire, participants, sendResult>>

\* sendPlain leaving its loop after the first connection.
ResumeSendPlainFirst(p, t) ==
    /\ t.k = "sendPlain"
    /\ LET enc   == encryptAESGCM(t.key, JSONstringify(t.x))
           first == IF connMap[p] = <<>> THEN <<>> ELSE <<Head(connMap[p])>>
       IN  Commit(SendAll(World, first, ChatMsg(p, enc), "none"))
    /\ delivered' = [delivered EXCEPT ![p] = Append(@, [from |-> p, payload |-> t.x])]
    /\ sendResult' = [sendResult EXCEPT ![p] = "ok"]
    /\ Finish(p, t)
    /\ UNCHANGED roomKey

\* peer.js:264-270  sendPlain after its encryption has resolved
ResumeSendPlain(p, t) ==
    /\ t.k = "sendPlain"
    /\ LET enc == encryptAESGCM(t.key, JSONstringify(t.x))
       IN  Commit(SendAll(World, connMap[p], ChatMsg(p, enc), "none"))
    /\ delivered' = [delivered EXCEPT ![p] = Append(@, [from |-> p, payload |-> t.x])]
    /\ sendResult' = [sendResult EXCEPT ![p] = "ok"]
    /\ Finish(p, t)
    /\ UNCHANGED roomKey

\* An awaited promise of peer p resolves and its async function runs on to
\* its next await or to its end.
Resume(p, t) ==
    /\ BagIn(t, pending[p])
    /\ \/ ResumeGenKey(p, t)
       \/ ResumePublicKey(p, t)
       \/ ResumeAnnounce(p, t)
       \/ ResumeAnnounceB(p, t)
       \/ ResumeAnnounceC(p, t)
       \/ ResumeRoomKey(p, t)
       \/ ResumeMsg(p, t)
       \/ ResumeSendPlain(p, t)
    /\ UNCHANGED <<peerOpen, announced, sends, closes, injected>>
    /\ UNCHANGED <<storeVars, uiVars>>

\* sendPlain without its room key test at peer.js:261.
sendPlainUnguarded(p, obj) ==
    /\ sends < MaxSends
    /\ sends' = sends + 1
    /\ Suspend(p, Task("sendPlain", 0, "L", NoMsg, obj, roomKey[p]))
    /\ UNCHANGED <<peerOpen, roomKey, connMap, conns, announced, delivered,
                   participants, sendResult, wire, closes, injected>>
    /\ UNCHANGED <<storeVars, uiVars>>

\* peer.js:260-263  the user calls sendPlain(obj)
sendPlain(p, obj) ==
    /\ sends < MaxSends
    /\ sends' = sends + 1
    /\ IF roomKey[p] = NoKey
       THEN /\ sendResult' = [sendResult EXCEPT ![p] = "NoRoomKey"]
            /\ UNCHANGED pending
       ELSE /\ Suspend(p, Task("sendPlain", 0, "L", NoMsg, obj, roomKey[p]))
            /\ UNCHANGED sendResult
    /\ UNCHANGED <<peerOpen, roomKey, connMap, conns, announced, delivered,
                   participants, wire, closes, injected>>
    /\ UNCHANGED <<storeVars, uiVars>>

(* ---------------------------- foreign records -------------------------- *)

\* What a party that does not run this controller may put on a connection
\* whose far handle peer p holds, far being conn.peer of that handle: any
\* record of the wire format, well-formed or not.  Only a holder of far's or
\* p's private key encrypts under their pairwise key, and the creator's end
\* delivers no room key but the creator's.
ForeignRecords(p, far) ==
    {Msg("publicKey", far, pk, <<>>, "none", NoEnc) :
        pk \in {exportPublicKeyToBase64("J2"), NoB64}}
    \cup
    {Msg("announce", far, pk, <<>>, "none", NoEnc) :
        pk \in {exportPublicKeyToBase64(far), exportPublicKeyToBase64("J2"), NoB64}}
    \cup
    {Msg("announce", q, exportPublicKeyToBase64(far), <<>>, "none", NoEnc) :
        q \in {p, "J2"}}
    \cup
    {Msg("roomKey", far, NoB64, <<>>, "none", encryptAESGCM(key, pt)) :
        key \in {deriveSharedAESKey(far, p)},
        pt \in {exportAESKeyToBase64(generateAESKey), JSONstringify("hi")} \cup
               (IF far = roomId THEN {} ELSE {exportAESKeyToBase64(ForeignKey)})}
    \cup
    {Msg("roomKey", far, NoB64, <<>>, "none",
         encryptAESGCM(ForeignKey, exportAESKeyToBase64(ForeignKey)))}
    \cup
    {Msg("peerList", far, NoB64, list, "none", NoEnc) :
        list \in {<<far, p>>, <<"J2", "J2">>}}
    \cup
    {Msg("newPeer", far, NoB64, <<>>, q, NoEnc) : q \in Peers}
    \cup
    {Msg("msg", far, NoB64, <<>>, "none", encryptAESGCM(key, JSONstringify("hi"))) :
        key \in {generateAESKey, ForeignKey}}
    \cup
    {Msg("msg", far, NoB64, <<>>, "none",
         encryptAESGCM(generateAESKey, exportAESKeyToBase64(ForeignKey)))}
    \cup
    {Msg(type, far, NoB64, <<>>, "none", NoEnc) :
        type \in {"announceRequest", "unparseable", "unknown"}}

\* The far end of the open, listened-to handle (id, side) hands record m to
\* the transport.
RemoteSend(id, side, m) ==
    /\ injected < MaxInject
    /\ conns[id][side].st = "open"
    /\ conns[id][side].handled
    /\ m \in ForeignRecords(Owner(conns[id], side), RemotePeer(conns[id], side))
    /\ injected' = injected + 1
    /\ conns' = [conns EXCEPT ![id][side].q = Append(@, m)]
    /\ UNCHANGED <<peerOpen, roomKey, connMap, pending, announced, delivered,
                   participants, sendResult, wire, sends, closes>>
    /\ UNCHANGED <<storeVars, uiVars>>

(* --------------------------- specifications ---------------------------- *)

Handles == (1..Len(conns)) \X {"L", "R"}

\* The events of a room in which the browsers of the peers in P run.
Mesh(P) ==
    \/ \E p \in P : PeerOpen(p)
    \/ \E p \in P \cap Joiners : announceToCreator(p)
    \/ \E h \in Handles : OpenEvent(h[1], h[2])
    \/ \E h \in Handles : DataEvent(h[1], h[2])
    \/ \E p \in P : \E t \in BagToSet(pending[p]) : Resume(p, t)

Chat(P) == \E p \in P : \E obj \in Payloads : sendPlain(p, obj)

Next == Mesh(Peers) \/ Chat(Peers)

\* One creator and two joiners over a transport that keeps every connection.
Spec == Init /\ [][Next]_vars

\* The room while only the creator and the first joiner have started.
Pair == {roomId, "J1"}

Closes == \E h \in Handles : CloseEvent(h[1], h[2])

NextClose == Mesh(Pair) \/ Chat(Pair) \/ Closes

\* The creator and one joiner over a transport that may close connections.
SpecClose == Init /\ [][NextClose]_vars

Foreign ==
    \E h \in Handles :
        \E m \in ForeignRecords(Owner(conns[h[1]], h[2]), RemotePeer(conns[h[1]], h[2])) :
            RemoteSend(h[1], h[2], m)

NextEnv == Mesh(Pair) \/ Chat(Pair) \/ Foreign

\* The creator and one joiner whose far ends may send any record.
SpecEnv == Init /\ [][NextEnv]_vars

NextMesh == Mesh(Peers)

\* The join protocol alone, every event that can happen eventually happening:
\* the browser's event loop runs every queued event, timer and continuation.
FairSpec == Init /\ [][NextMesh]_vars /\ WF_vars(NextMesh)

NextStore ==
    \/ \E r \in Rooms : \E M \in Logs : \E K \in LocalKeys : save(r, M, K)
    \/ \E r \in Rooms : \E K \in LocalKeys : load(r, K)
    \/ \E t \in BagToSet(storeTasks) : ResumeSave(t)
    \/ \E t \in BagToSet(storeTasks) : ResumeLoad(t)

\* The history store under any calls of save and load.
SpecStore == Init /\ [][NextStore]_vars

NextUi ==
    \/ \E M \in Logs \ {<<>>} : \E K \in LocalKeys : uiPhase = "idle" /\ save(roomId, M, K)
    \/ \E K \in LocalKeys : start(K)
    \/ \E t \in BagToSet(storeTasks) : ResumeLoadHistory(t)
    \/ \E msg \in Payloads : onPeerMessage(msg)
    \/ \E t \in BagToSet(storeTasks) : ResumeSave(t)

\* One page: saves of earlier sessions, then start and the messages of this
\* session.
SpecUi == Init /\ [][NextUi]_vars

(* ------------------------------- claims -------------------------------- *)

\* The identities in a registry.
KeySet(map) == {map[i].pid : i \in 1..Len(map)}

\* The continuations of peer p.
Tasks(p) == BagToSet(pending[p])

\* The creator, holding the room key, is handling a KeyAgreementAnnounce of j.
AnnounceInHand(j) ==
    /\ roomKey[roomId] # NoKey
    /\ \E t \in Tasks(roomId) : t.k = "announce" /\ t.m.from = j

\* C1: whenever a creator that holds the RoomKey receives the announce of a
\* joiner over a channel that stays open, the joiner eventually adopts the
\* creator's RoomKey.
C1_KeyDeliveryLiveness ==
    \A j \in Joiners : AnnounceInHand(j) ~> (roomKey[j] = generateAESKey)

MeshConverged ==
    \A p \in Peers :
        /\ KeySet(connMap[p]) = Peers \ {p}
        /\ roomKey[p] = generateAESKey

\* C2: with one creator and two joiners that have connected to the creator,
\* whose announces the creator (holding the RoomKey) is handling, and no
\* channel closing, eventually every registry holds exactly the other peers
\* and every peer holds the creator's RoomKey.
C2_MeshConvergence == (\A j \in Joiners : AnnounceInHand(j)) ~> MeshConverged

\* C3: the channel a peer has registered for another peer and that is open
\* is one on which the other peer processes incoming data, so that a chat
\* message sent on it reaches the other peer's observer.
C3_RegisteredChannelIsListened ==
    \A p \in Peers : \A i \in 1..Len(connMap[p]) :
        LET e == connMap[p][i] IN
        conns[e.id][e.side].st = "open" => conns[e.id][Other(e.side)].handled

\* C4: every peer whose RoomKey is set holds the key the creator generated.
C4_RoomKeyAgreement ==
    \A p \in Peers : roomKey[p] # NoKey => roomKey[p] = generateAESKey

\* C5: once the creator holds its RoomKey, no event and no record it receives
\* replaces it.
C5_CreatorKeyNeverChanges ==
    [][roomKey[roomId] # NoKey => roomKey'[roomId] = roomKey[roomId]]_vars

\* Every record handed to the transport, with the handle it was sent on.
Sent == BagToSet(wire)

\* A payload an observer holding the keys in `known` reads.
Readable(enc, known) == enc.pt # NoPt /\ (enc.key = NoKey \/ enc.key \in known)

\* The keys an observer learns from the payloads it reads with `known`.
Learn(known) ==
    known \cup {w.m.enc.pt.k : w \in {x \in Sent : /\ Readable(x.m.enc, known)
                                                   /\ x.m.enc.pt.kind = "key"}}

\* What an observer of all traffic that holds no private key ends up with.
ObserverKeys == Learn(Learn({}))

\* C6: no record handed to the transport carries the RoomKey or a chat
\* plaintext that an observer holding no private key can read; the RoomKey
\* travels only in roomKey records of the creator encrypted under the key
\* derived between the creator and the peer at the other end, and chat
\* plaintext only in msg records encrypted under the RoomKey.
C6_WireConfidential ==
    \A w \in Sent :
        /\ ~Readable(w.m.enc, ObserverKeys)
        /\ w.m.enc.pt # NoPt /\ w.m.enc.pt.kind = "key" =>
              /\ w.m.type = "roomKey"
              /\ Owner(conns[w.id], w.side) = roomId
              /\ w.m.enc.key = deriveSharedAESKey(roomId, RemotePeer(conns[w.id], w.side))
        /\ w.m.enc.pt # NoPt /\ w.m.enc.pt.kind = "chat" =>
              /\ w.m.type = "msg"
              /\ w.m.enc.key = generateAESKey

\* The creator has sent the room key to a joiner and someone has sent a chat
\* message.
C6_KeyAndChatSent ==
    /\ \E w \in Sent : w.m.type = "roomKey" /\ w.m.enc.pt.kind = "key"
    /\ \E w \in Sent : w.m.type = "msg" /\ w.m.enc.pt.kind = "chat"

\* C7: a sendPlain call made while the caller has no RoomKey ends with
\* NoRoomKey, hands nothing to any connection, delivers nothing locally,
\* starts no continuation and leaves the registry and the RoomKey as they were.
C7_SendWithoutKeyFails ==
    [][\A p \in Peers : \A obj \in Payloads :
          sendPlain(p, obj) /\ roomKey[p] = NoKey =>
              /\ sendResult'[p] = "NoRoomKey"
              /\ UNCHANGED <<wire, conns, delivered, connMap, roomKey, pending,
                             participants>>]_vars

\* A joiner without the room key has called sendPlain.
C7_JoinerRefused == sendResult["J1"] = "NoRoomKey" /\ roomKey["J1"] = NoKey

\* The registry entries of peer p whose connection is open.
OpenEntries(p) ==
    {i \in 1..Len(connMap[p]) : conns[connMap[p][i].id][connMap[p][i].side].st = "open"}

\* C8: when sendPlain runs its loop with the RoomKey present, every registry
\* connection that is open gets exactly one envelope holding the payload
\* encrypted under the RoomKey, no other record is handed to the transport,
\* and the plaintext is delivered locally exactly once with the sender's own
\* identity.
C8_SendPlainBroadcast ==
    [][\A p \in Peers : \A t \in Tasks(p) :
          t.k = "sendPlain" /\ Resume(p, t) =>
              LET env == ChatMsg(p, encryptAESGCM(roomKey[p], JSONstringify(t.x)))
              IN  /\ roomKey[p] # NoKey
                  /\ \A i \in 1..Len(connMap[p]) :
                        LET e == connMap[p][i]
                            w == [id |-> e.id, side |-> e.side, m |-> env]
                        IN  CopiesIn(w, wire') = CopiesIn(w, wire) +
                                (IF i \in OpenEntries(p) THEN 1 ELSE 0)
                  /\ BagCardinality(wire') =
                        BagCardinality(wire) + Cardinality(OpenEntries(p))
                  /\ delivered' = [delivered EXCEPT ![p] =
                                      Append(@, [from |-> p, payload |-> t.x])]]_vars

\* The creator has sent one message over two connections and seen it itself.
C8_SentToTwo ==
    /\ delivered[roomId] = <<[from |-> roomId, payload |-> "hi"]>>
    /\ \E w1, w2 \in Sent :
          /\ w1.id # w2.id
          /\ w1.m.type = "msg" /\ w2.m.type = "msg"
          /\ Owner(conns[w1.id], w1.side) = roomId
          /\ Owner(conns[w2.id], w2.side) = roomId

\* The record the next data event of handle h hands to its peer.
NextRecord(h) == Head(conns[h[1]][h[2]].q)

\* C9: a data event that hands a ChatEnvelope to a peer without RoomKey only
\* consumes the record: nothing is delivered, no continuation starts, nothing
\* is sent and the registry and the RoomKey stay as they were; one handed to a
\* peer that holds a RoomKey starts a decryption under that key, and a
\* decryption of a chat payload encrypted under that key delivers it with the
\* sender named in the envelope.
C9_EarlyEnvelopeDropped ==
    [][/\ \A h \in Handles :
             DataEvent(h[1], h[2]) /\ NextRecord(h).type = "msg" =>
                 LET p == Owner(conns[h[1]], h[2])
                     m == NextRecord(h)
                 IN  /\ conns' = [conns EXCEPT ![h[1]][h[2]].q = Tail(@)]
                     /\ UNCHANGED <<delivered, connMap, roomKey, wire,
                                    participants, sendResult>>
                     /\ pending' = [pending EXCEPT ![p] =
                           IF roomKey[p] = NoKey THEN @
                           ELSE @ (+) SetToBag({Task("msg", h[1], h[2], m, "none",
                                                     roomKey[p])})]
       /\ \A p \in Peers : \A t \in Tasks(p) :
             /\ t.k = "msg" /\ Resume(p, t)
             /\ t.m.enc.key = t.key /\ t.m.enc.pt.kind = "chat"
             => delivered' = [delivered EXCEPT ![p] =
                   Append(@, [from |-> t.m.from, payload |-> t.m.enc.pt.text])]
      ]_vars

\* The joiner was handed an envelope while it had no room key, dropped it,
\* adopted the room key afterwards and then received and delivered a second
\* envelope.
C9_DroppedThenDelivered ==
    /\ roomKey["J1"] = generateAESKey
    /\ pending["J1"] = EmptyBag
    /\ \E c \in 1..Len(conns) : \E s \in {"L", "R"} :
          /\ Owner(conns[c], s) = "J1"
          /\ conns[c][s].q = <<>>
          /\ \E w \in Sent : /\ w.id = c /\ w.side = Other(s) /\ w.m.type = "msg"
                             /\ CopiesIn(w, wire) = 2
    /\ delivered["J1"] = <<[from |-> roomId, payload |-> "hi"]>>

\* C10: at the creator the announce of an identity that is in the registry,
\* and at any peer a PeerIntroduction or a PeerList entry naming an identity
\* that is in the registry, opens no connection and leaves every registry's
\* identities and every RoomKey as they were; a PeerList opens one connection
\* for each distinct identity it names that is neither in the registry nor
\* the peer's own.
C10_DuplicateControlIdempotent ==
    [][LET Same == /\ Len(conns') = Len(conns)
                   /\ \A q \in Peers : KeySet(connMap'[q]) = KeySet(connMap[q])
                   /\ roomKey' = roomKey
       IN
       /\ \A t \in Tasks(roomId) :
             /\ t.k \in {"announce", "announceB", "announceC"}
             /\ t.m.from \in KeySet(connMap[roomId])
             /\ Resume(roomId, t)
             => Same
       /\ \A h \in Handles :
             /\ DataEvent(h[1], h[2])
             /\ NextRecord(h).type = "newPeer"
             /\ NextRecord(h).who \in KeySet(connMap[Owner(conns[h[1]], h[2])])
             => Same
       /\ \A h \in Handles :
             DataEvent(h[1], h[2]) /\ NextRecord(h).type = "peerList" =>
                 LET p     == Owner(conns[h[1]], h[2])
                     list  == NextRecord(h).list
                     fresh == {list[i] : i \in 1..Len(list)}
                                  \ (KeySet(connMap[p]) \cup {p})
                 IN  /\ Len(conns') = Len(conns) + Cardinality(fresh)
                     /\ KeySet(connMap'[p]) = KeySet(connMap[p]) \cup fresh
                     /\ roomKey' = roomKey
      ]_vars

\* The creator is handling two announces of a joiner that is in its registry
\* over the only connection there is.
C10_DuplicateAnnounceInHand ==
    /\ "J1" \in KeySet(connMap[roomId])
    /\ Len(conns) = 1
    /\ LET S == {t \in Tasks(roomId) :
                    t.k \in {"announceB", "announceC"} /\ t.m.from = "J1"}
       IN  Cardinality(S) >= 2 \/ \E t \in S : CopiesIn(t, pending[roomId]) >= 2

\* The continuations of peer p that will adopt a room key: roomKey cases on
\* handle h whose delivery decrypts under the key of p and conn._theirPub.
AdoptingOn(p, h) ==
    {t \in Tasks(p) :
        /\ t.k = "roomKey" /\ t.id = h[1] /\ t.side = h[2]
        /\ t.x # "none"
        /\ decryptAESGCM(deriveSharedAESKey(p, t.x), t.m.enc).ok
        /\ importAESKeyFromBase64(
               decryptAESGCM(deriveSharedAESKey(p, t.x), t.m.enc).pt).ok}

\* C11: records of one connection take effect in arrival order: a ChatEnvelope
\* handed to a peer after a RoomKeyDelivery of the same connection that the
\* peer is adopting is not dropped but goes on to decryption.
C11_EnvelopeAfterKeyHandled ==
    [][\A h \in Handles :
          LET p == Owner(conns[h[1]], h[2])
          IN  /\ DataEvent(h[1], h[2])
              /\ NextRecord(h).type = "msg"
              /\ AdoptingOn(p, h) # {}
              => \E t \in BagToSet(pending'[p]) :
                    t.k = "msg" /\ t.id = h[1] /\ t.side = h[2]]_vars

\* C12: no registry holds an entry keyed by its own peer's identity.
C12_NoSelfInRegistry ==
    \A p \in Peers : p \notin KeySet(connMap[p])

\* C13: the public key stored on a connection handle, once set, keeps its
\* value.
C13_TheirPubImmutable ==
    [][\A h \in Handles :
          conns[h[1]][h[2]].pub # "none" =>
              conns'[h[1]][h[2]].pub = conns[h[1]][h[2]].pub]_vars

\* The roomKey case of continuation t of peer p will fail: the connection had
\* no public key when the record was handed over, or the payload does not
\* decrypt under the pairwise key.
DeliveryFails(p, t) ==
    /\ t.k = "roomKey"
    /\ \/ t.x = "none"
       \/ ~decryptAESGCM(deriveSharedAESKey(p, t.x), t.m.enc).ok

\* C14: a RoomKeyDelivery whose decryption fails ends its handler and changes
\* nothing else: the RoomKey, the registry, the connections (which stay open
\* and listened to), what was delivered, what was sent and the result of the
\* last sendPlain call are as before.
C14_FailedDeliveryNoEffect ==
    [][\A p \in Peers : \A t \in Tasks(p) :
          DeliveryFails(p, t) /\ Resume(p, t) =>
              /\ UNCHANGED <<roomKey, connMap, conns, delivered, wire,
                             sendResult, participants>>
              /\ pending' = [pending EXCEPT ![p] = @ (-) SetToBag({t})]]_vars

\* A joiner without room key that knows the remote public key is handling a
\* RoomKeyDelivery encrypted under a key that is not their pairwise key.
C14_JoinerHandlesBadDelivery ==
    /\ roomKey["J1"] = NoKey
    /\ \E t \in Tasks("J1") :
          /\ DeliveryFails("J1", t)
          /\ t.x # "none"
          /\ t.m.enc.pt # NoPt

\* C15: every entry of every registry refers to a connection that is open.
C15_RegistryHoldsOpenChannels ==
    \A p \in Peers : \A i \in 1..Len(connMap[p]) :
        conns[connMap[p][i].id][connMap[p][i].side].st = "open"

\* C16: neither step of the handling of a received ChatEnvelope hands a record
\* to the transport, and a step that hands a ChatEnvelope to the transport is
\* the loop of a sendPlain call of the peer named in its from field, sending
\* on a connection handle of that peer.
C16_NoRelay ==
    [][/\ \A h \in Handles :
             DataEvent(h[1], h[2]) /\ NextRecord(h).type = "msg" => wire' = wire
       /\ \A p \in Peers : \A t \in Tasks(p) :
             t.k = "msg" /\ Resume(p, t) => wire' = wire
       /\ \A w \in BagToSet(wire') :
             w.m.type = "msg" /\ CopiesIn(w, wire') > CopiesIn(w, wire) =>
                 /\ w.m.from \in Peers
                 /\ Owner(conns[w.id], w.side) = w.m.from
                 /\ \E t \in Tasks(w.m.from) :
                       t.k = "sendPlain" /\ Resume(w.m.from, t)
      ]_vars

\* The creator has decrypted and delivered an envelope that came from the
\* joiner's end while its registry held an open connection.
C16_CreatorDeliveredForeign ==
    /\ \E i \in 1..Len(delivered[roomId]) : delivered[roomId][i].from = "J1"
    /\ OpenEntries(roomId) # {}

\* A record that does not parse or whose type no case of the switch matches.
Malformed(m) == m.type \in {"unparseable", "unknown"}

\* A publicKey or announce record without a usable public key field.
LacksKeyField(m) ==
    m.type \in {"publicKey", "announce"} /\ ~importPublicKeyFromBase64(m.pk).ok

Membership(map, p) == Keys(map) \o <<p>>

\* C18: every step that changes a registry ends with a notification of the
\* registry's identities in insertion order followed by the peer's own, and
\* the last notification of a peer that was ever notified equals its registry
\* plus itself.
C18_NotifiedOnEveryMutation ==
    /\ [](\A p \in Peers :
            \/ participants[p] = <<>> /\ connMap[p] = <<>>
            \/ participants[p] = Membership(connMap[p], p))
    /\ [][\A p \in Peers :
            connMap'[p] # connMap[p] =>
                participants'[p] = Membership(connMap'[p], p)]_vars

\* A peer whose only connection closed was notified of a membership of itself
\* alone.
C18_NotifiedAfterRemoval ==
    /\ closes > 0
    /\ \E p \in Pair : participants[p] = <<p>> /\ connMap[p] = <<>>

\* The publicKey record the far end sent at open has been handed to the peer
\* at handle h.
PublicKeyArrived(h) ==
    /\ \E w \in Sent :
          w.id = h[1] /\ w.side = Other(h[2]) /\ w.m.type = "publicKey"
    /\ \A i \in 1..Len(conns[h[1]][h[2]].q) :
          conns[h[1]][h[2]].q[i].type # "publicKey"

\* C20: when a RoomKeyDelivery is handed to a joiner on its connection to the
\* creator after the creator's publicKey record on that connection, the
\* connection already stores the creator's public key.
C20_PubKeyBeforeRoomKey ==
    [][\A h \in Handles :
          /\ DataEvent(h[1], h[2])
          /\ NextRecord(h).type = "roomKey"
          /\ Owner(conns[h[1]], h[2]) \in Joiners
          /\ RemotePeer(conns[h[1]], h[2]) = roomId
          /\ PublicKeyArrived(h)
          => conns[h[1]][h[2]].pub # "none"]_vars

\* The item a completed save(roomId, M, K) leaves in the store.
Saved(M, K) == encryptAESGCM(K, JSONstringify(M))

IntroductionDue(j, q) ==
    /\ \E t \in Tasks(roomId) : t.k = "announceC" /\ t.m.from = j
    /\ \E i \in OpenEntries(roomId) : connMap[roomId][i].pid = q

\* C21: the loop of the creator's announce case for P hands exactly one
\* PeerIntroduction(P) to every open connection of the registry whose
\* identity is not P, none to a connection of P and none anywhere else; and
\* a joiner with an open connection in the creator's registry at that moment
\* eventually has P in its own registry, as the outcome of its connect.
C21_IntroductionBroadcast ==
    /\ [][\A t \in Tasks(roomId) :
            t.k = "announceC" /\ Resume(roomId, t) =>
                LET intro == NewPeerMsg(roomId, t.m.from)
                    To    == {i \in OpenEntries(roomId) :
                                 connMap[roomId][i].pid # t.m.from}
                IN  /\ \A i \in 1..Len(connMap[roomId]) :
                          LET e == connMap[roomId][i]
                              w == [id |-> e.id, side |-> e.side, m |-> intro]
                          IN  CopiesIn(w, wire') = CopiesIn(w, wire) +
                                  (IF i \in To THEN 1 ELSE 0)
                    /\ BagCardinality(wire') = BagCardinality(wire) + Cardinality(To)
         ]_vars
    /\ \A j, q \in Joiners :
          j # q /\ IntroductionDue(j, q) ~> j \in KeySet(connMap[q])

\* The creator has introduced J2 to J1 and J1 has connected to J2.
C21_IntroducedAndConnected ==
    /\ \E w \in Sent : w.m.type = "newPeer" /\ w.m.who = "J2"
                       /\ RemotePeer(conns[w.id], w.side) = "J1"
    /\ "J2" \in KeySet(connMap["J1"])

\* C22: the close event of a connection handle leaves alone a registry entry
\* of the same identity that refers to another handle which is open.
C22_CloseRemovesOnlyItsConnection ==
    [][\A h \in Handles :
          LET p == Owner(conns[h[1]], h[2])
              X == RemotePeer(conns[h[1]], h[2])
          IN  /\ CloseEvent(h[1], h[2])
              /\ \E i \in OpenEntries(p) :
                    /\ connMap[p][i].pid = X
                    /\ <<connMap[p][i].id, connMap[p][i].side>> # h
              => \E i \in 1..Len(connMap'[p]) : connMap'[p][i].pid = X]_vars

\* Log M is the beginning of log N.
IsPrefix(M, N) == Len(M) <= Len(N) /\ SubSeq(N, 1, Len(M)) = M

\* C23: once the session has started, a save that replaces the stored
\* history of the room writes a log that begins with that history.
C23_HistoryNeverDiscarded ==
    [][\A t \in BagToSet(storeTasks) :
          /\ t.op = "save" /\ ResumeSave(t)
          /\ uiPhase # "idle"
          => \A M \in Logs : \A K \in LocalKeys :
                localStorage[t.room] = Saved(M, K) => IsPrefix(M, t.log)]_vars

====
